---- MODULE Spec2Model ----
(***************************************************************************)
(* Model of evaluateFvCB (src/backend/fvcb/evaluate.py): one call of the   *)
(* function on a parameter mapping p and a batch x of samples (Ci, Q, T).  *)
(*                                                                         *)
(* Numbers.  A float is a record [t, v]: t = "fin" with the integer v,     *)
(* t = "inf" with the sign v, or t = "nan".  Concentrations (Ci, Cc) are   *)
(* counted in ticks, Res ticks making up the convergence threshold 1e-6,   *)
(* so one ppm is TolInv * Res ticks.  Rates (A) are integers in the unit   *)
(* in which a conductance gm = n / r (n in {-1, 0, 1}, r >= 1) turns the   *)
(* rate a into a * r ticks: the quotient A_i / gm of line 104 is exact.    *)
(*                                                                         *)
(* The closed form of A (exp, log, sqrt; lines 31-67 and 78) is not        *)
(* computed: what the model keeps of it is (1) the order in which one      *)
(* evaluation reads the keys of p and calls Tresp, (2) the two clamps,     *)
(* (3) its float behaviour as a function of Cc, chosen per sample by Q     *)
(* among saturated, contracting, oscillating, singular and overflowing     *)
(* responses (Response).                                                   *)
(***************************************************************************)
EXTENDS Integers, Sequences, FiniteSets, TLC

VARIABLES p, scalars, x, pc, err, a, gm, A_out, i, Cc, Cc_new, A_i, k, exit,
          evalAt, ratio, hist

vars == <<p, scalars, x, pc, err, a, gm, A_out, i, Cc, Cc_new, A_i, k, exit,
          evalAt, ratio, hist>>

---------------------------------------------------------------------------
(* Bounds of the model *)

\* longest batch
MaxN == 2
\* ticks per 1e-6 (the resolution of a concentration)
Res == 2
\* theta is counted in units of 0.0001 / ThetaSub
ThetaSub == 10

(* Constants of the program *)

\* range(40), line 102
MaxIter == 40
\* 20/0.2, line 101, in ppm
OffsetPpm == 100
\* 1 / 1e-6, line 105
TolInv == 1000000
\* 0.0001 = 1 / ThetaFloorInv, line 49
ThetaFloorInv == 10000
\* 1.0001 = ClampNum / ClampDen, line 33
ClampNum == 10001
ClampDen == 10000
\* Tresp(T, dHa, 500, 1000), lines 42-45
DefaultdHd == 500
\* the reference temperature of Tresp, line 32
TRef == 298

Ppm == TolInv * Res
Tol == Res
Offset == OffsetPpm * Ppm

---------------------------------------------------------------------------
(* Floats *)

F(n) == [t |-> "fin", v |-> n]
NaN == [t |-> "nan", v |-> 0]
PInf == [t |-> "inf", v |-> 1]
NInf == [t |-> "inf", v |-> -1]

IsNaN(f) == f.t = "nan"
IsFinite(f) == f.t = "fin"

Neg(f) == IF f.t = "nan" THEN NaN ELSE [t |-> f.t, v |-> 0 - f.v]

\* f - g
Sub(f, g) ==
    CASE f.t = "nan" \/ g.t = "nan" -> NaN
      [] f.t = "fin" /\ g.t = "fin" -> F(f.v - g.v)
      [] f.t = "inf" /\ g.t = "fin" -> f
      [] f.t = "fin" /\ g.t = "inf" -> Neg(g)
      [] OTHER -> IF f.v = g.v THEN NaN ELSE f

\* np.abs
Abs(f) ==
    CASE f.t = "nan" -> NaN
      [] f.t = "inf" -> PInf
      [] OTHER -> F(IF f.v < 0 THEN 0 - f.v ELSE f.v)

\* f < n for an integer n: false of NaN
Lt(f, n) ==
    CASE f.t = "nan" -> FALSE
      [] f.t = "inf" -> f.v < 0
      [] OTHER -> f.v < n

(* Conductances: the value of p['gm'] *)

GmNaN == [t |-> "nan", n |-> 0, r |-> 1]
GmNone == [t |-> "none", n |-> 0, r |-> 1]
Gm(n, r) == [t |-> "num", n |-> n, r |-> r]

\* f / g, for g > 0 or g NaN (the only divisors line 104 is reached with)
Div(f, g) ==
    CASE f.t = "nan" \/ g.t = "nan" -> NaN
      [] f.t = "inf" -> f
      [] OTHER -> F((f.v * g.r) \div g.n)

---------------------------------------------------------------------------
(* The parameter mapping p: a function from the keys present to values.    *)
(* theta is an integer in units of 0.0001 / ThetaSub, the dHa and dHd are  *)
(* integers, gm is a conductance; the other values do not enter the model. *)
(* scalars says what the values are: Python numbers, whose division by     *)
(* zero raises ZeroDivisionError, or numpy scalars, whose division by zero  *)
(* yields inf or nan.                                                       *)

\* the keys the call reads with p[...]
Required ==
    {"Vcmax25", "Vcmax_dHa", "Vcmax_dHd", "Vcmax_Topt",
     "Jmax25", "Jmax_dHa", "Jmax_dHd", "Jmax_Topt",
     "TPU25", "TPU_dHa", "TPU_dHd", "TPU_Topt",
     "Kc25", "Kc_dHa", "Ko25", "Ko_dHa", "GammaS25", "GammaS_dHa",
     "Rd25", "Rd_dHa", "O", "alpha", "theta", "alphaG"}

\* the keys the docstring lists as required
DocKeys ==
    {"Vcmax25", "Vcmax_dHa", "Vcmax_dHd", "Vcmax_Topt",
     "Jmax25", "Jmax_dHa", "Jmax_dHd", "Jmax_Topt",
     "Kc25", "Kc_dHa", "Ko25", "Ko_dHa", "Gamma25", "Gamma_dHa",
     "Rd25", "Rd_dHa", "O", "alpha", "theta"}

NoErr == [type |-> "none", key |-> "", tresp |-> 0]
KeyError(key, n) == [type |-> "KeyError", key |-> key, tresp |-> n]
ZeroDivisionError(key, n) == [type |-> "ZeroDivisionError", key |-> key, tresp |-> n]

(* Tresp *)

ThetaFloor == ThetaSub

\* a = max(p['theta'], 0.0001)
ClampThetaNoFloor(theta) == IF theta < 0 THEN 0 ELSE theta
ClampTheta(theta) == IF ThetaFloor > theta THEN ThetaFloor ELSE theta

\* dHd_over_dHa = max(dHd / dHa, 1.0001), as a fraction <<numerator,
\* denominator>> with a denominator >= 0: <<d, 0>> is inf, -inf or nan (d = 0)
Quotient(dHd, dHa) == IF dHa >= 0 THEN <<dHd, dHa>> ELSE <<0 - dHd, 0 - dHa>>
RatioGt(q1, q2) == q1[1] * q2[2] > q2[1] * q1[2]
RatioUsed(dHd, dHa) ==
    IF RatioGt(<<ClampNum, ClampDen>>, Quotient(dHd, dHa))
    THEN <<ClampNum, ClampDen>>
    ELSE Quotient(dHd, dHa)

\* the argument of np.log: dHd_over_dHa - 1
LogArg(q) == <<q[1] - q[2], q[2]>>

(* One evaluation of A_given_Cc, as the sequence of its reads of p and its  *)
(* calls of Tresp, in Python's order of evaluation (left to right).         *)

Read(key) == [op |-> "key", key |-> key, dHa |-> "", dHd |-> ""]
\* Tresp(T, p[dHa], p[dHd], ...) for the rate constant c
Call(c, dHa, dHd) == [op |-> "Tresp", key |-> c, dHa |-> dHa, dHd |-> dHd]

TrespNames == {"Vcmax", "Jmax", "TPU", "Kc", "Ko", "Gamma", "Rd"}

VcmaxSteps ==
    <<Read("Vcmax25"), Read("Vcmax_dHa"), Read("Vcmax_dHd"), Read("Vcmax_Topt"),
      Call("Vcmax", "Vcmax_dHa", "Vcmax_dHd")>>
JmaxSteps ==
    <<Read("Jmax25"), Read("Jmax_dHa"), Read("Jmax_dHd"), Read("Jmax_Topt"),
      Call("Jmax", "Jmax_dHa", "Jmax_dHd")>>
TPUSteps ==
    <<Read("TPU25"), Read("TPU_dHa"), Read("TPU_dHd"), Read("TPU_Topt"),
      Call("TPU", "TPU_dHa", "TPU_dHd")>>
KcSteps == <<Read("Kc25"), Read("Kc_dHa"), Call("Kc", "Kc_dHa", "")>>
KoSteps == <<Read("Ko25"), Read("Ko_dHa"), Call("Ko", "Ko_dHa", "")>>
GammaSteps == <<Read("GammaS25"), Read("GammaS_dHa"), Call("Gamma", "GammaS_dHa", "")>>
RdSteps == <<Read("Rd25"), Read("Rd_dHa"), Call("Rd", "Rd_dHa", "")>>
KcoSteps == KcSteps \o <<Read("O")>> \o KoSteps
JSteps ==
    <<Read("alpha")>> \o JmaxSteps \o <<Read("alpha")>> \o JmaxSteps
        \o <<Read("alpha")>> \o JmaxSteps
vrSteps == VcmaxSteps \o GammaSteps \o KcoSteps \o RdSteps
jrSteps == JSteps \o GammaSteps \o GammaSteps \o RdSteps
tpuSteps == TPUSteps \o GammaSteps \o GammaSteps
ASteps == tpuSteps \o vrSteps \o jrSteps

\* the keys read at the definition of the closures, in order (lines 49, 60)
EagerKeysThetaOnly == <<"theta">>
EagerKeys == <<"theta", "alphaG">>

dHdOf(q, s) == IF s.dHd = "" THEN DefaultdHd ELSE q[s.dHd]

\* whether step s raises, on the mapping q
Fails(q, s) ==
    IF s.op = "key"
    THEN s.key \notin DOMAIN q
    ELSE scalars = "python" /\ s.dHa \in DOMAIN q /\ q[s.dHa] = 0

\* the index of the first step of ss that raises on q, 0 when none does
FirstFailure(q, ss) ==
    IF \E j \in 1..Len(ss) : Fails(q, ss[j])
    THEN CHOOSE j \in 1..Len(ss) :
            Fails(q, ss[j]) /\ \A h \in 1..(j - 1) : ~Fails(q, ss[h])
    ELSE 0

\* the calls of Tresp among the first n steps of ss
TrespCalls(ss, n) == {j \in 1..n : ss[j].op = "Tresp"}

\* the exception of step j of ss
Raised(ss, j) ==
    IF ss[j].op = "key"
    THEN KeyError(ss[j].key, Cardinality(TrespCalls(ss, j - 1)))
    ELSE ZeroDivisionError(ss[j].dHa, Cardinality(TrespCalls(ss, j - 1)))

\* the call of Tresp for the rate constant c: its first place in ASteps
TrespIndex ==
    [c \in TrespNames |->
        CHOOSE j \in 1..Len(ASteps) :
            /\ ASteps[j].op = "Tresp" /\ ASteps[j].key = c
            /\ \A h \in 1..(j - 1) : ~(ASteps[h].op = "Tresp" /\ ASteps[h].key = c)]
TrespStep(c) == ASteps[TrespIndex[c]]

\* dHd_over_dHa of each rate constant after the first m steps of ASteps
Ratios(q, m, old) ==
    [c \in TrespNames |->
        IF TrespIndex[c] <= m
        THEN RatioUsed(dHdOf(q, TrespStep(c)), q[TrespStep(c).dHa])
        ELSE old[c]]

---------------------------------------------------------------------------
(* The float behaviour of A_given_Cc(Cc, Q, T) when every read succeeds.    *)
(* Q selects the response of the rate to Cc; c is Cc in ticks.              *)

Saturated == 0
Contracting == 1
Oscillating == 2
Singular == 3
Overflowing == 4

\* the compensation point of the sloped responses, in ticks
GammaTicks == 40 * Ppm + 1
\* the rate of the saturated response
SatRate == 50 * Ppm
\* the limits of the oscillating response
MaxRate == 150 * Ppm
\* the Cc at which the TPU denominator Cc - (1 + 3 alphaG) Gamma(T) is zero
SingularTicks == 200 * Ppm

Clip(n, lo, hi) == IF n < lo THEN lo ELSE IF n > hi THEN hi ELSE n

Response(Q, c) ==
    CASE Q = Saturated -> F(SatRate)
      [] Q = Contracting -> F((c - GammaTicks) \div 4)
      [] Q = Oscillating -> F(Clip(c - GammaTicks, 0 - MaxRate, MaxRate))
      [] Q = Singular -> IF c = SingularTicks THEN NaN ELSE F(SatRate)
      [] OTHER -> NInf

\* hmin(tpu(Cc, T), hmin(vr(Cc, T), jr(Cc, Q, T))): every quotient of the
\* rates is inf/inf at an infinite Cc, and NaN goes through every operation
A_given_Cc(c, Q, T) == IF IsFinite(c) THEN Response(Q, c.v) ELSE NaN

---------------------------------------------------------------------------
(* The solver, lines 90-109 *)

\* gm = p.get('gm', None)
GetGm(q) == IF "gm" \in DOMAIN q THEN q["gm"] ELSE GmNone

\* gm is None or gm <= 0
Disabled(g) == g.t = "none" \/ (g.t = "num" /\ g.n <= 0)

\* Cc = Ci_i - 20/0.2; prev is what Cc held before the assignment
InitialGuessAtCi(ci, prev) == ci
InitialGuessWarm(ci, prev) == IF prev = F(0) THEN Sub(ci, F(Offset)) ELSE prev
InitialGuess(ci, prev) == Sub(ci, F(Offset))

\* for _ in range(40)
LoopGuardNoCap(n) == TRUE
LoopGuard(n) == n < MaxIter

\* np.abs(Cc_new - Cc) < 1e-6
ConvergedNoAbs(new, old) == Lt(Sub(new, old), Tol)
ConvergedNotGe(new, old) == Lt(Abs(Sub(new, old)), Tol) \/ IsNaN(Sub(new, old))
Converged(new, old) == Lt(Abs(Sub(new, old)), Tol)

\* if ...: break / Cc = Cc_new
CcAfterAssignFirst(conv, old, new) == new
CcAfter(conv, old, new) == IF conv THEN old ELSE new

n == Len(x)
Ci_i == x[i].Ci
Q_i == x[i].Q
T_i == x[i].T

\* the first step of one evaluation of A that raises, 0 when none does
Failure == FirstFailure(p, ASteps)

Raise(e) ==
    /\ pc' = "raised"
    /\ err' = e

\* lines 21-88: the closures are defined, theta, alphaG and gm are read
Setup ==
    /\ pc = "start"
    /\ LET f == FirstFailure(p, [j \in 1..Len(EagerKeys) |-> Read(EagerKeys[j])])
       IN IF f # 0
          THEN /\ Raise(KeyError(EagerKeys[f], 0))
               /\ a' = IF f > 1 THEN ClampTheta(p["theta"]) ELSE a
               /\ UNCHANGED <<gm, A_out, i>>
          ELSE /\ a' = ClampTheta(p["theta"])
               /\ gm' = GetGm(p)
               /\ A_out' = [j \in 1..n |-> F(0)]
               /\ i' = 1
               /\ pc' = "loop"
               /\ UNCHANGED err
    /\ UNCHANGED <<p, scalars, x, Cc, Cc_new, A_i, k, exit, evalAt, ratio, hist>>

\* lines 91-93: A_out[i] = A_given_Cc(Ci[i], Q[i], T[i])
Direct ==
    /\ pc = "loop"
    /\ i <= n
    /\ Disabled(gm)
    /\ LET f == Failure
       IN IF f # 0
       THEN /\ Raise(Raised(ASteps, f))
            /\ ratio' = Ratios(p, f - 1, ratio)
            /\ UNCHANGED <<A_out, i, hist>>
       ELSE /\ ratio' = Ratios(p, Len(ASteps), ratio)
            /\ A_out' = [A_out EXCEPT ![i] = A_given_Cc(Ci_i, Q_i, T_i)]
            /\ hist' = Append(hist, [path |-> "direct", exit |-> "none", iters |-> 0,
                                     at |-> Ci_i, last_new |-> F(0), last_A |-> F(0),
                                     evalAt |-> <<Ci_i>>])
            /\ i' = i + 1
            /\ UNCHANGED <<pc, err>>
    /\ UNCHANGED <<p, scalars, x, a, gm, Cc, Cc_new, A_i, k, exit, evalAt>>

\* lines 96-102: the initial guess, and the loop is entered
Start ==
    /\ pc = "loop"
    /\ i <= n
    /\ ~Disabled(gm)
    /\ Cc' = InitialGuess(Ci_i, Cc)
    /\ k' = 0
    /\ exit' = "none"
    /\ evalAt' = <<>>
    /\ pc' = "iter"
    /\ UNCHANGED <<p, scalars, x, err, a, gm, A_out, i, Cc_new, A_i, ratio, hist>>

\* lines 102-107: one iteration of the loop
Iterate ==
    /\ pc = "iter"
    /\ LET f == Failure
       IN IF f # 0
       THEN /\ Raise(Raised(ASteps, f))
            /\ ratio' = Ratios(p, f - 1, ratio)
            /\ UNCHANGED <<Cc, Cc_new, A_i, k, exit, evalAt>>
       ELSE LET A_new == A_given_Cc(Cc, Q_i, T_i)
                new == Sub(Ci_i, Div(A_new, gm))
                conv == Converged(new, Cc)
            IN /\ ratio' = Ratios(p, Len(ASteps), ratio)
               /\ A_i' = A_new
               /\ Cc_new' = new
               /\ evalAt' = Append(evalAt, Cc)
               /\ Cc' = CcAfter(conv, Cc, new)
               /\ k' = k + 1
               /\ exit' = IF conv THEN "Converged"
                          ELSE IF LoopGuard(k + 1) THEN "none" ELSE "CappedOut"
               /\ pc' = IF conv \/ ~LoopGuard(k + 1) THEN "final" ELSE "iter"
               /\ UNCHANGED err
    /\ UNCHANGED <<p, scalars, x, a, gm, A_out, i, hist>>

\* line 109: A_out[i] = A_given_Cc(Cc, Q_i, T_i)
Final ==
    /\ pc = "final"
    /\ A_out' = [A_out EXCEPT ![i] = A_given_Cc(Cc, Q_i, T_i)]
    /\ hist' = Append(hist, [path |-> "solve", exit |-> exit, iters |-> k,
                             at |-> Cc, last_new |-> Cc_new, last_A |-> A_i,
                             evalAt |-> Append(evalAt, Cc)])
    /\ evalAt' = Append(evalAt, Cc)
    /\ i' = i + 1
    /\ pc' = "loop"
    /\ UNCHANGED <<p, scalars, x, err, a, gm, Cc, Cc_new, A_i, k, exit, ratio>>

\* line 111: return A_out
Return ==
    /\ pc = "loop"
    /\ i > n
    /\ pc' = "done"
    /\ UNCHANGED <<p, scalars, x, err, a, gm, A_out, i, Cc, Cc_new, A_i, k, exit, evalAt,
                   ratio, hist>>

---------------------------------------------------------------------------
(* The calls *)

Sample(ci, q) == [Ci |-> F(ci * Ppm), Q |-> q, T |-> TRef]

Samples ==
    {Sample(200, Saturated), Sample(300, Contracting), Sample(300, Oscillating),
     Sample(250, Singular), Sample(200, Singular), Sample(300, Singular),
     Sample(300, Overflowing)}

Batches(m) == UNION {[1..len -> Samples] : len \in 0..m}
ClampBatches == {<<>>, <<Sample(200, Saturated)>>, <<Sample(200, Singular)>>}

\* theta = 0.7
StdTheta == ((7 * ThetaFloorInv) \div 10) * ThetaSub

StdValue(key) ==
    CASE key = "theta" -> StdTheta
      [] key \in {"Vcmax_dHa", "Jmax_dHa", "TPU_dHa", "Kc_dHa", "Ko_dHa",
                  "GammaS_dHa", "Rd_dHa", "Gamma_dHa"} -> 65
      [] key \in {"Vcmax_dHd", "Jmax_dHd", "TPU_dHd"} -> 200
      [] OTHER -> 1

\* the mapping with the keys keys, gm = g where present, and the values of ov
MakeP(keys, g, ov) ==
    [key \in keys |->
        IF key = "gm" THEN g
        ELSE IF key \in DOMAIN ov THEN ov[key] ELSE StdValue(key)]

GmValues == {GmNaN, Gm(0 - 1, 1), Gm(0, 1), Gm(1, 1), Gm(1, 2)}

NoOverride == [key \in {} |-> 0]

\* every key present, gm absent or any conductance
SolverCalls ==
    {MakeP(Required, GmNone, NoOverride)}
        \cup {MakeP(Required \cup {"gm"}, g, NoOverride) : g \in GmValues}

\* one required key missing, or exactly the keys of the docstring
KeySets == {Required \ {key} : key \in Required} \cup {DocKeys}
KeyCalls ==
    {MakeP(keys \cup opt, Gm(1, 1), ov) :
        keys \in KeySets, opt \in {{}, {"gm"}},
        ov \in {NoOverride, [key \in {"TPU_dHa"} |-> 0],
                [key \in {"Rd_dHa"} |-> 0]}}

ThetaValues ==
    {0 - ThetaSub, 0, ThetaSub - 1, ThetaSub, ThetaSub + 1, StdTheta}
\* <<dHd, dHa>>
EnergyPairs ==
    {<<200, 65>>, <<65, 65>>, <<30, 65>>, <<200, 0 - 65>>, <<0 - 200, 0 - 65>>,
     <<100005, 100000>>, <<10001, 10000>>, <<100020, 100000>>, <<200, 0>>}
KcdHaValues == {65, 1000, 0}
ClampCalls ==
    {MakeP(Required \cup opt, Gm(1, 1),
           [key \in {"theta", "Vcmax_dHd", "Vcmax_dHa", "Kc_dHa"} |->
                CASE key = "theta" -> th
                  [] key = "Vcmax_dHd" -> e[1]
                  [] key = "Vcmax_dHa" -> e[2]
                  [] OTHER -> kc]) :
        opt \in {{}, {"gm"}}, th \in ThetaValues, e \in EnergyPairs,
        kc \in KcdHaValues}

\* the kind of the values matters to a division by a zero dHa alone
ScalarKinds(q) ==
    IF \E c \in TrespNames : TrespStep(c).dHa \in DOMAIN q /\ q[TrespStep(c).dHa] = 0
    THEN {"python", "numpy"}
    ELSE {"python"}

Init ==
    /\ \/ p \in SolverCalls /\ x \in Batches(MaxN)
       \/ p \in KeyCalls /\ x \in Batches(1)
       \/ p \in ClampCalls /\ x \in ClampBatches
    /\ scalars \in ScalarKinds(p)
    /\ pc = "start"
    /\ err = NoErr
    /\ a = 0
    /\ gm = GmNone
    /\ A_out = <<>>
    /\ i = 0
    /\ Cc = F(0)
    /\ Cc_new = F(0)
    /\ A_i = F(0)
    /\ k = 0
    /\ exit = "none"
    /\ evalAt = <<>>
    /\ ratio = [c \in TrespNames |-> <<0, 1>>]
    /\ hist = <<>>

Next ==
    \/ Setup
    \/ Direct
    \/ Start
    \/ Iterate
    \/ Final
    \/ Return

Spec == Init /\ [][Next]_vars

---------------------------------------------------------------------------
(* What one sample's output is, as a function of the sample and gm alone *)

RECURSIVE Solve(_, _, _, _)
\* the output when j iterations have been done and left cc
Solve(s, g, cc, j) ==
    IF j = MaxIter
    THEN A_given_Cc(cc, s.Q, s.T)
    ELSE LET new == Sub(s.Ci, Div(A_given_Cc(cc, s.Q, s.T), g))
         IN IF Lt(Abs(Sub(new, cc)), Tol)
            THEN A_given_Cc(cc, s.Q, s.T)
            ELSE Solve(s, g, new, j + 1)

SampleResult(s, g) ==
    IF g.t = "none" \/ (g.t = "num" /\ g.n <= 0)
    THEN A_given_Cc(s.Ci, s.Q, s.T)
    ELSE Solve(s, g, Sub(s.Ci, F(Offset)), 0)

Solved == {j \in 1..Len(hist) : hist[j].path = "solve"}
Missing == Required \ DOMAIN p
Positive(g) == g.t = "num" /\ g.n > 0
\* a sample has just been completed, or the call has returned: the states
\* in which hist and A_out have their values between two samples
Between == pc \in {"loop", "done"}

---------------------------------------------------------------------------
(* C1 *)

\* C1, as claimed: on the enabled path the output of every sample is A at
\* the last Cc computed inside the loop (the Cc_new of the final iteration),
\* whether the loop ended by convergence or at the cap.
C1_OutputAtLastComputedCc ==
    \A j \in Solved : hist[j].at = hist[j].last_new

\* C1, amended: at the cap the output is A at the Cc_new of the 40th
\* iteration; at convergence it is A at the Cc the final iteration evaluated
\* (Cc_k, within the threshold of the discarded Cc_new), so the output is
\* the A_i of that iteration.
C1_OutputAtLoopCc ==
    \A j \in Solved :
        LET h == hist[j]
        IN /\ h.exit \in {"Converged", "CappedOut"}
           /\ A_out[j] = A_given_Cc(h.at, x[j].Q, x[j].T)
           /\ h.exit = "CappedOut" => h.at = h.last_new
           /\ h.exit = "Converged" =>
                /\ h.at = h.evalAt[h.iters]
                /\ A_out[j] = h.last_A
                /\ Lt(Abs(Sub(h.last_new, h.at)), Tol)

C1_Witness ==
    /\ pc = "done"
    /\ \E j \in Solved : hist[j].exit = "Converged" /\ hist[j].at # hist[j].last_new
    /\ \E j \in Solved : hist[j].exit = "CappedOut"

(* C2 *)

\* C2: the iteration is run exactly when gm is supplied and positive; in
\* every other case (absent, zero, negative, NaN) the output is A(Ci, Q, T)
\* evaluated once.
C2_IterationIffPositive ==
    \A j \in 1..Len(hist) :
        /\ hist[j].path = "solve" <=> Positive(GetGm(p))
        /\ ~Positive(GetGm(p)) =>
              /\ hist[j].iters = 0
              /\ A_out[j] = A_given_Cc(x[j].Ci, x[j].Q, x[j].T)

(* C3 *)

C4_FixedPointConsistency ==
    \A j \in Solved :
        hist[j].exit = "Converged" =>
            /\ Positive(gm)
            /\ IsFinite(A_out[j]) /\ IsFinite(hist[j].at)
            /\ LET d == gm.r * A_out[j].v - gm.n * (x[j].Ci.v - hist[j].at.v)
               IN 0 - gm.n * Tol <= d /\ d <= gm.n * Tol

C4_Witness ==
    \E j \in Solved :
        /\ hist[j].exit = "Converged"
        /\ gm.r * A_out[j].v # gm.n * (x[j].Ci.v - hist[j].at.v)

(* C5 *)

\* C5: a call on n samples returns n outputs, output[i] a function of
\* input[i] and the parameters alone, on both paths: nothing carries from
\* one sample to the next.
C5_SampleIndependence ==
    /\ Between => \A j \in 1..Len(hist) : A_out[j] = SampleResult(x[j], GetGm(p))
    /\ Between => Len(hist) = i - 1
    /\ pc = "done" => Len(hist) = n /\ Len(A_out) = n

C5_Witness ==
    /\ pc = "done"
    /\ n = 2
    /\ Solved = {1, 2}
    /\ x[1] # x[2]
    /\ A_out[1] # A_out[2]
    /\ hist[1].iters > 1

(* C6 *)

\* C6, as claimed: a call whose mapping lacks a required key fails with a
\* lookup error before any per-sample computation, for every batch (the
\* empty one too), and returns no output.
C6_FailsBeforeAnySample ==
    Missing # {} =>
        /\ pc # "done"
        /\ pc = "raised" /\ err.type = "KeyError" => err.tresp = 0 /\ hist = <<>>

\* C6, amended: a mapping without theta or alphaG raises the lookup error
\* while the closures are defined, before the loop over the samples, for
\* every batch.  Any other required key is read only inside an evaluation
\* of A: on a non-empty batch the first evaluation for the first sample
\* raises (the lookup error of a missing key, or the ZeroDivisionError of a
\* call of Tresp made before that read) before any rate is produced or any
\* output element written, and nothing is returned; on an empty batch no
\* read is made and the empty output is returned.  gm never raises.
C6_LookupErrors ==
    /\ err.key # "gm"
    /\ err.type = "KeyError" => err.key \in Missing
    /\ Missing \cap {"theta", "alphaG"} # {} =>
          /\ pc \in {"start", "raised"}
          /\ pc = "raised" =>
                /\ err.type = "KeyError"
                /\ err.key \in {"theta", "alphaG"}
                /\ i = 0
                /\ err.tresp = 0
    /\ Missing # {} /\ Missing \cap {"theta", "alphaG"} = {} =>
          /\ hist = <<>>
          /\ pc # "final" /\ k = 0
          /\ pc = "done" => n = 0 /\ A_out = <<>>
          /\ pc = "raised" =>
                /\ n > 0 /\ i = 1
                /\ \A j \in 1..n : A_out[j] = F(0)
                /\ err.type = "ZeroDivisionError" => p[err.key] = 0

C6_Witness ==
    /\ pc = "raised"
    /\ Missing = {"Vcmax25"}
    /\ err.type = "KeyError"
    /\ err.key = "Vcmax25"
    /\ err.tresp > 0
    /\ ~Disabled(gm)

(* C7 *)

\* C7: a mapping holding exactly the keys the docstring lists as required
\* is accepted: on a non-empty batch no lookup raises.
C7_DocstringKeysSuffice ==
    DOMAIN p = DocKeys /\ n > 0 => pc # "raised"

(* C8 *)

C9_Clamps ==
    /\ pc # "start" /\ "theta" \in DOMAIN p =>
          /\ 2 * a # 0
          /\ p["theta"] <= 0 => a = ThetaFloor
          /\ p["theta"] >= ThetaFloor => a = p["theta"]
    /\ \A c \in TrespNames :
          ratio[c] # <<0, 1>> =>
              LET dHa == p[TrespStep(c).dHa]
                  dHd == dHdOf(p, TrespStep(c))
              IN dHa # 0 =>
                    /\ ~RatioGt(Quotient(dHd, dHa), <<1, 1>>) =>
                           ratio[c] = <<ClampNum, ClampDen>>
                    /\ RatioGt(Quotient(dHd, dHa), <<ClampNum, ClampDen>>) =>
                           ratio[c] = Quotient(dHd, dHa)
                    /\ LogArg(ratio[c])[1] > 0 /\ LogArg(ratio[c])[2] > 0
    /\ pc = "raised" =>
          \/ err.type = "KeyError" /\ err.key \notin DOMAIN p
          \/ err.type = "ZeroDivisionError" /\ p[err.key] = 0 /\ scalars = "python"

C9_Witness ==
    /\ pc = "done"
    /\ n = 1
    /\ p["theta"] <= 0
    /\ a = ThetaFloor
    /\ p["Vcmax_dHd"] < p["Vcmax_dHa"]
    /\ ratio["Vcmax"] = <<ClampNum, ClampDen>>
    /\ ratio["Kc"] = <<ClampNum, ClampDen>>

(* C10 *)

====
